---- MODULE Spec2Model ----
(***************************************************************************)
(* State-machine model of the deepthink backend:                           *)
(*   - the /ws/chat WebSocket handler (ChatWebSocket.ts): one connection,  *)
(*     its message / close handlers and the event forwarding loop;         *)
(*   - LLMFactory (provider cache);                                        *)
(*   - DeepThinkEngine, whose source is not part of the tree and which is  *)
(*     modelled from the specification (sections 4-7).                     *)
(***************************************************************************)
EXTENDS Integers, Sequences, FiniteSets, TLC

(***************************************************************************)
(* Bounds of the model.                                                    *)
(***************************************************************************)
\* engines one connection may create (protocol specification)
MaxRuns == 2
\* engines one connection may create (input and event specifications)
MaxInputRuns == 1
\* providers the process constructs (factory specification)
MaxProviders == 3
\* expert strategies configured for the fan-out
NumExperts == 1
\* largest maxRounds value a request of the bounded input sets carries
MaxRoundsReq == 2
\* providers constructed in the cache specification
MaxCreated == 22
\* deliveries of each signal to the process
MaxSignals == 3

(***************************************************************************)
(* Strings.  A string is a run-length encoded character sequence: a        *)
(* sequence of blocks [c, n] (character c repeated n >= 1 times), adjacent *)
(* blocks carrying different characters.  The encoding keeps the real      *)
(* lengths (50,000 / 1 MB) within reach of the checker.  A character       *)
(* outside printable ASCII is written as its escape, \uXXXX.                *)
(***************************************************************************)
Rep(c, n) == IF n <= 0 THEN <<>> ELSE <<[c |-> c, n |-> n]>>

Cat(a, b) ==
    IF a = <<>> THEN b
    ELSE IF b = <<>> THEN a
    ELSE IF a[Len(a)].c = b[1].c
         THEN SubSeq(a, 1, Len(a) - 1)
              \o <<[c |-> b[1].c, n |-> a[Len(a)].n + b[1].n]>>
              \o Tail(b)
         ELSE a \o b

RECURSIVE Chars(_)
Chars(cs) == IF cs = <<>> THEN <<>> ELSE Cat(Rep(Head(cs), 1), Chars(Tail(cs)))

RECURSIVE StrLen(_)
StrLen(s) == IF s = <<>> THEN 0 ELSE Head(s).n + StrLen(Tail(s))

\* the characters String.prototype.trim removes: WhiteSpace (tab, VT, FF,
\* space, NBSP, BOM and the space separators) and LineTerminator
WhiteSpace ==
    {"\t", "\\u000b", "\f", " ", "\\u00a0", "\\ufeff", "\\u1680",
     "\\u2000", "\\u2001", "\\u2002", "\\u2003", "\\u2004", "\\u2005",
     "\\u2006", "\\u2007", "\\u2008", "\\u2009", "\\u200a",
     "\\u202f", "\\u205f", "\\u3000"}
LineTerminator == {"\n", "\r", "\\u2028", "\\u2029"}

IsWhitespace(c) == c \in WhiteSpace \cup LineTerminator

RECURSIVE TrimStart(_)
TrimStart(s) ==
    IF s = <<>> THEN s
    ELSE IF IsWhitespace(Head(s).c) THEN TrimStart(Tail(s)) ELSE s

RECURSIVE TrimEnd(_)
TrimEnd(s) ==
    IF s = <<>> THEN s
    ELSE IF IsWhitespace(s[Len(s)].c) THEN TrimEnd(SubSeq(s, 1, Len(s) - 1)) ELSE s

\* String.prototype.trim
Trim(s) == TrimEnd(TrimStart(s))

(***************************************************************************)
(* JavaScript values: what JSON.parse can return, plus undefined.          *)
(***************************************************************************)
Undefined == [t |-> "undefined"]
JNull == [t |-> "null"]
JBool(b) == [t |-> "bool", v |-> b]
\* the number n / d  (d >= 1)
JNum(n, d) == [t |-> "num", n |-> n, d |-> d]
JStr(s) == [t |-> "str", s |-> s]
JArr(items) == [t |-> "arr", items |-> items]
\* f: a function from property names to values
JObj(f) == [t |-> "obj", f |-> f]
EmptyObj == JObj(<<>>)
\* an object with a toString property of its own, as JSON.parse returns it
\* for {"toString": 1}
OwnToString == JObj([toString |-> JNum(1, 1)])

\* value.prop for a value that is neither null nor undefined
Get(v, k) ==
    IF v.t = "obj" /\ k \in DOMAIN v.f THEN v.f[k] ELSE Undefined

\* ToBoolean
Truthy(v) ==
    CASE v.t = "undefined" -> FALSE
      [] v.t = "null" -> FALSE
      [] v.t = "bool" -> v.v
      [] v.t = "num" -> v.n # 0
      [] v.t = "str" -> v.s # <<>>
      [] OTHER -> TRUE

\* a || b
Or(a, b) == IF Truthy(a) THEN a ELSE b

S_ping == Chars(<<"p", "i", "n", "g">>)
S_cancel == Chars(<<"c", "a", "n", "c", "e", "l">>)
S_openai == Chars(<<"o", "p", "e", "n", "a", "i">>)

(***************************************************************************)
(* ChatWebSocket.ts: constants and the pure parts of the message handler.  *)
(***************************************************************************)
MAX_MESSAGE_SIZE == 1 * 1024 * 1024
MAX_QUERY_LENGTH == 50000
\* WebSocket.readyState
OPEN == 1
CLOSING == 2
CLOSED == 3

PONG_MSG == [type |-> "pong"]

\* An incoming frame: the length of its text and what JSON.parse makes of it.
Unparseable == [t |-> "unparseable"]
Frame(size, json) == [size |-> size, json |-> json]

ErrorMsgAsPong(text) == [type |-> "pong", message |-> text]
ErrorMsg(text) == [type |-> "error", message |-> text]

\* const query = typeof data.query === 'string' ? data.query.trim() : ''
QueryOf(data) ==
    IF Get(data, "query").t = "str" THEN Trim(Get(data, "query").s) ELSE <<>>

QueryTooLongOffByOne(query) == StrLen(query) > MAX_QUERY_LENGTH + 1
QueryTooLong(query) == StrLen(query) > MAX_QUERY_LENGTH

\* the streamConfig object literal and its conditional assignments
StreamConfigKeysUnconditional(data) ==
    {"maxRounds", "defaultModel", "apiKey", "baseUrl", "fileContext"}
StreamConfigKeys(data) ==
    {"maxRounds"}
    \cup (IF Truthy(Get(data, "model")) THEN {"defaultModel"} ELSE {})
    \cup (IF Truthy(Get(data, "apiKey")) THEN {"apiKey"} ELSE {})
    \cup (IF Truthy(Get(data, "baseUrl")) THEN {"baseUrl"} ELSE {})
    \cup (IF Truthy(Get(data, "fileContext")) THEN {"fileContext"} ELSE {})

RequestField(k) == IF k = "defaultModel" THEN "model" ELSE k

StreamConfig(data) ==
    JObj([k \in StreamConfigKeys(data) |->
            IF k = "maxRounds" THEN Or(Get(data, "maxRounds"), JNum(1, 1))
            ELSE Get(data, RequestField(k))])

\* Which path of the message handler a frame takes, given isProcessing.
PathCancelAsQuery(frame, processing) ==
    IF frame.size > MAX_MESSAGE_SIZE THEN "too_large"
    ELSE IF frame.json = Unparseable THEN "invalid_json"
    ELSE IF frame.json = JNull THEN "type_error"
    ELSE IF Get(frame.json, "type") = JStr(S_ping) THEN "ping"
    ELSE IF processing THEN "busy"
    ELSE IF QueryOf(frame.json) = <<>> THEN "empty"
    ELSE IF QueryTooLong(QueryOf(frame.json)) THEN "too_long"
    ELSE "accept"
Path(frame, processing) ==
    IF frame.size > MAX_MESSAGE_SIZE THEN "too_large"
    ELSE IF frame.json = Unparseable THEN "invalid_json"
    ELSE IF frame.json = JNull THEN "type_error"
    ELSE IF Get(frame.json, "type") = JStr(S_ping) THEN "ping"
    ELSE IF Get(frame.json, "type") = JStr(S_cancel) THEN "cancel"
    ELSE IF processing THEN "busy"
    ELSE IF QueryOf(frame.json) = <<>> THEN "empty"
    ELSE IF QueryTooLong(QueryOf(frame.json)) THEN "too_long"
    ELSE "accept"

(***************************************************************************)
(* LLMFactory (src/unnamed/part_000).  The cache is a Map: a sequence of   *)
(* entries in insertion order.                                             *)
(***************************************************************************)
MAX_CACHE_SIZE == 20

\* Number::toString (radix 10) of the number n / d.  Covered: the numbers
\* whose decimal expansion is finite with at most 15 significant digits; for
\* these the expansion itself is the shortest digit string that reads back
\* to the same double.  The other numbers (longer or endless expansions) need
\* the double's own digits and are left undefined.
DigitChar(i) == <<"0", "1", "2", "3", "4", "5", "6", "7", "8", "9">>[i + 1]

\* the text of a natural number
RECURSIVE Digits(_)
Digits(n) ==
    IF n < 10 THEN Rep(DigitChar(n), 1)
    ELSE Cat(Digits(n \div 10), Rep(DigitChar(n % 10), 1))

\* the digits of a natural number, most significant first
RECURSIVE DigitSeq(_)
DigitSeq(n) == IF n < 10 THEN <<n>> ELSE Append(DigitSeq(n \div 10), n % 10)

\* the digits of r / d (r < d) after the point, by long division, at most
\* `places` of them
RECURSIVE FracDigits(_, _, _)
FracDigits(r, d, places) ==
    IF r = 0 \/ places = 0 THEN <<>>
    ELSE <<(r * 10) \div d>> \o FracDigits((r * 10) % d, d, places - 1)

RECURSIVE LeadingZeros(_)
LeadingZeros(ds) ==
    IF ds = <<>> \/ Head(ds) # 0 THEN 0 ELSE 1 + LeadingZeros(Tail(ds))

RECURSIVE TrailingZeros(_)
TrailingZeros(ds) ==
    IF ds = <<>> \/ ds[Len(ds)] # 0 THEN 0
    ELSE 1 + TrailingZeros(SubSeq(ds, 1, Len(ds) - 1))

RECURSIVE DigitsText(_)
DigitsText(ds) ==
    IF ds = <<>> THEN <<>>
    ELSE Cat(Rep(DigitChar(Head(ds)), 1), DigitsText(Tail(ds)))

\* a denominator of at most MaxDenominator divides without overflow, and a
\* finite expansion over such a denominator has at most MaxPlaces places
MaxDenominator == 214748364
MaxPlaces == 31
MaxSignificant == 15

\* all digits of |n / d|, without the zero before the point
AllDigits(n, d) ==
    LET a == IF n < 0 THEN 0 - n ELSE n
    IN  (IF a \div d = 0 THEN <<>> ELSE DigitSeq(a \div d))
        \o FracDigits(a % d, d, MaxPlaces + 1)

\* the significant digits s of the standard: no zero at either end
Significant(n, d) ==
    LET all == AllDigits(n, d)
    IN  SubSeq(all, LeadingZeros(all) + 1, Len(all) - TrailingZeros(all))

NumTextCovers(n, d) ==
    /\ d >= 1 /\ d <= MaxDenominator
    /\ LET a == IF n < 0 THEN 0 - n ELSE n
       IN  Len(FracDigits(a % d, d, MaxPlaces + 1)) <= MaxPlaces
    /\ Len(Significant(n, d)) <= MaxSignificant

\* the text of the significant digits s with the point after the first e of
\* them (the n of the standard: s * 10^(e - Len(s)) is the number)
NumFormat(s, e) ==
    LET k == Len(s)
        exponent == Cat(Cat(Rep("e", 1), Rep(IF e - 1 < 0 THEN "-" ELSE "+", 1)),
                        Digits(IF e - 1 < 0 THEN 1 - e ELSE e - 1))
    IN  IF k <= e /\ e <= 21
        THEN Cat(DigitsText(s), Rep("0", e - k))
        ELSE IF 0 < e /\ e <= 21
        THEN Cat(Cat(DigitsText(SubSeq(s, 1, e)), Rep(".", 1)),
                 DigitsText(SubSeq(s, e + 1, k)))
        ELSE IF 0 - 6 < e /\ e <= 0
        THEN Cat(Cat(Cat(Rep("0", 1), Rep(".", 1)), Rep("0", 0 - e)),
                 DigitsText(s))
        ELSE IF k = 1
        THEN Cat(DigitsText(s), exponent)
        ELSE Cat(Cat(Cat(DigitsText(<<s[1]>>), Rep(".", 1)),
                     DigitsText(SubSeq(s, 2, k))),
                 exponent)

\* the digits of |n / d| before the point
WholeLen(n, d) ==
    LET a == IF n < 0 THEN 0 - n ELSE n
    IN  IF a \div d = 0 THEN 0 ELSE Len(DigitSeq(a \div d))

NumText(n, d) ==
    CASE n = 0 -> Rep("0", 1)
      [] n # 0 /\ NumTextCovers(n, d) ->
           Cat(IF n < 0 THEN Rep("-", 1) ELSE <<>>,
               NumFormat(Significant(n, d),
                         WholeLen(n, d) - LeadingZeros(AllDigits(n, d))))

S_object ==
    Chars(<<"[", "o", "b", "j", "e", "c", "t", " ", "O", "b", "j", "e", "c", "t", "]">>)

\* what an evaluation gives: the text it returns, or the message of the
\* error it throws
Returned(s) == [threw |-> "", text |-> s]
Thrown(message) == [threw |-> message, text |-> <<>>]

\* the TypeError of ToPrimitive
PrimitiveError == "Cannot convert object to primitive value"

\* one more item of a join: an item that throws ends the conversion
JoinItem(joined, item, first) ==
    IF joined.threw # "" THEN joined
    ELSE IF item.threw # "" THEN item
    ELSE IF first THEN item
    ELSE Returned(Cat(Cat(joined.text, Rep(",", 1)), item.text))

\* `${v}`: ToString of the value a template substitution is given.  An
\* object is converted by its toString method: Object.prototype.toString
\* unless the object has a toString property of its own, which (a value
\* that JSON.parse returned is never callable) leaves no method that gives
\* a primitive, and the conversion throws.
RECURSIVE Text(_)
Text(v) ==
    CASE v.t = "str" -> Returned(v.s)
      [] v.t = "num" -> Returned(NumText(v.n, v.d))
      [] v.t = "bool" ->
           Returned(IF v.v THEN Chars(<<"t", "r", "u", "e">>)
                    ELSE Chars(<<"f", "a", "l", "s", "e">>))
      [] v.t = "null" -> Returned(Chars(<<"n", "u", "l", "l">>))
      [] v.t = "undefined" ->
           Returned(Chars(<<"u", "n", "d", "e", "f", "i", "n", "e", "d">>))
      [] v.t = "obj" ->
           IF "toString" \in DOMAIN v.f THEN Thrown(PrimitiveError)
           ELSE Returned(S_object)
      [] v.t = "arr" ->
           \* Array.prototype.join: null and undefined items give '', the
           \* other items are converted in order
           LET item(i) == IF v.items[i].t \in {"null", "undefined"}
                          THEN Returned(<<>>)
                          ELSE Text(v.items[i])
               join[i \in 0..Len(v.items)] ==
                   IF i = 0 THEN Returned(<<>>)
                   ELSE JoinItem(join[i - 1], item(i), i = 1)
           IN  join[Len(v.items)]

Colon == Rep(":", 1)

\* the template of line 17 over its four substitutions, which are converted
\* from left to right; the first conversion that throws ends the evaluation
Template(provider, apiKey, baseUrl, defaultModel) ==
    IF provider.threw # "" THEN provider
    ELSE IF apiKey.threw # "" THEN apiKey
    ELSE IF baseUrl.threw # "" THEN baseUrl
    ELSE IF defaultModel.threw # "" THEN defaultModel
    ELSE Returned(Cat(Cat(Cat(Cat(Cat(Cat(
             provider.text, Colon), apiKey.text), Colon),
             baseUrl.text), Colon), defaultModel.text))

getCacheKey(config) ==
    Template(Text(Or(Get(config, "provider"), JStr(S_openai))),
             Text(Or(Get(config, "apiKey"), JStr(<<>>))),
             Text(Or(Get(config, "baseUrl"), JStr(<<>>))),
             Text(Or(Get(config, "defaultModel"), JStr(<<>>))))

\* Map.get: the index of the entry under key, 0 when there is none
CacheIndexMiss(c, key) == 0
CacheIndex(c, key) ==
    IF \E i \in 1..Len(c) : c[i].key = key
    THEN CHOOSE i \in 1..Len(c) : c[i].key = key
    ELSE 0

\* new OpenAIProvider(config.apiKey, config.baseUrl, config.defaultModel).
\* The constructor is not in the tree; it is taken to return a provider for
\* what it is given: in the specification the missing credential, tested
\* before it, is the only configuration error (section 7).
OpenAIProvider(id, config) ==
    [id |-> id,
     apiKey |-> Get(config, "apiKey"),
     baseUrl |-> Get(config, "baseUrl"),
     defaultModel |-> Get(config, "defaultModel")]

\* if (this.cache.size >= MAX_CACHE_SIZE) delete the first key (a key is
\* never the empty string, so the delete is always made)
EvictNothing(c) == c
EvictNewest(c) == IF Len(c) >= MAX_CACHE_SIZE THEN SubSeq(c, 1, Len(c) - 1) ELSE c
Evict(c) == IF Len(c) >= MAX_CACHE_SIZE THEN Tail(c) ELSE c

NoProvider == [id |-> 0]
ApiKeyError ==
    "LLM API Key \\u672a\\u914d\\u7f6e\\u3002\\u8bf7\\u5728\\u7ba1\\u7406\\u9762\\u677f (/admin) \\u4e2d\\u8bbe\\u7f6e API Key\\uff0c\\u6216\\u5728 .env \\u4e2d\\u914d\\u7f6e OPENAI_API_KEY\\u3002"

MissingApiKeyIgnored(config) == FALSE
MissingApiKey(config) == ~Truthy(Get(config, "apiKey"))

\* createLLM from line 30 on, key being what getCacheKey(config) gave
Cached(c, n, config, key) ==
    LET hit == CacheIndex(c, key.text)
        made == OpenAIProvider(n + 1, config)
    IN  IF key.threw # ""
        THEN \* getCacheKey throws before the lookup
             [threw |-> key.threw, provider |-> NoProvider, cache |-> c, made |-> n]
        ELSE IF hit # 0
        THEN [threw |-> "", provider |-> c[hit].provider, cache |-> c, made |-> n]
        ELSE [threw |-> "", provider |-> made,
              cache |-> Append(Evict(c), [key |-> key.text, provider |-> made,
                                          config |-> config]),
              made |-> n + 1]

\* createLLM(customConfig) on cache c with n providers constructed so far and
\* llmConfig.get() = defaults: what it throws or returns, and the cache after.
\* An entry also records the configuration its provider was constructed for.
createLLM(c, n, customConfig, defaults) ==
    IF MissingApiKey(Or(customConfig, defaults))
    THEN [threw |-> ApiKeyError, provider |-> NoProvider, cache |-> c, made |-> n]
    ELSE Cached(c, n, Or(customConfig, defaults),
                getCacheKey(Or(customConfig, defaults)))

clearCache(c) == <<>>

(***************************************************************************)
(* DeepThinkEngine, modelled from the specification (its source is not in  *)
(* the tree).  One engine serves one run; stream() is a lazy sequence of   *)
(* events; a failure is raised out of stream(); abort() sets the           *)
(* cancellation token, after which the stream ends without further events. *)
(***************************************************************************)
\* overrides of the run take precedence over the process-wide configuration
EffectiveConfig(defaults, streamConfig) ==
    JObj([k \in {"provider", "apiKey", "baseUrl", "defaultModel"} |->
            IF k # "provider" /\ Get(streamConfig, k) # Undefined
            THEN Get(streamConfig, k)
            ELSE Get(defaults, k)])

\* rounds driven for a maxRounds value: for (round = 1; round <= maxRounds; ...)
RoundLimit(maxRounds) ==
    IF maxRounds.t = "num" /\ maxRounds.n >= maxRounds.d
    THEN maxRounds.n \div maxRounds.d
    ELSE IF maxRounds = JBool(TRUE) THEN 1 ELSE 0

InitialRunState ==
    JObj([searchResults |-> Undefined, expertsOutput |-> JArr(<<>>),
          finalOutput |-> Undefined])

NewRun(request, query, streamConfig) ==
    [request |-> request, query |-> query, config |-> streamConfig,
     active |-> TRUE, aborted |-> FALSE, cancelled |-> FALSE,
     round |-> 1, stage |-> "init", experts |-> 0,
     state |-> InitialRunState,
     yielded |-> <<>>, wire |-> <<>>, outcome |-> "running",
     completes |-> 0, errors |-> 0, searchStarts |-> 0]

\* number of messages of a sequence that satisfy a test
Count(seq, Test(_)) == Cardinality({i \in DOMAIN seq : Test(seq[i])})

IsComplete(m) == m.type = "complete"
IsError(m) == m.type = "error"
IsSearchStart(m) ==
    m.type = "state_update" /\ m.node = "search" /\ m.status = "started"

\* The run after a handler step sent `out` for it: the log of the run and the
\* tallies of what the client was sent.
Sent(run, out) ==
    [run EXCEPT !.wire = @ \o out,
                !.completes = @ + Count(out, IsComplete),
                !.errors = @ + Count(out, IsError),
                !.searchStarts = @ + Count(out, IsSearchStart)]

\* The engine is discarded when its run ends: nothing of it is kept.
Ended(run) ==
    [NewRun(EmptyObj, <<>>, EmptyObj) EXCEPT
        !.active = FALSE, !.outcome = "ended", !.stage = "done", !.round = 0]

\* what the step that ends a run records of it: the way it ended, its flags
\* and the tallies of what the client was sent for it
Final(run, outcome) ==
    [outcome |-> outcome, cancelled |-> run.cancelled, aborted |-> run.aborted,
     completes |-> run.completes, errors |-> run.errors,
     searchStarts |-> run.searchStarts]

\* engine.abort(): the token is set.  An engine whose token is set yields
\* nothing more and only ends its stream, so what it had reached and the logs
\* kept of it are dropped; the tallies of what the client was sent stay.
abort(run) ==
    [run EXCEPT !.aborted = TRUE,
                !.stage = IF @ = "broken" THEN @ ELSE "aborted",
                !.state = InitialRunState, !.experts = 0,
                !.yielded = <<>>, !.wire = <<>>]

SetField(obj, k, v) == JObj([obj.f EXCEPT ![k] = v])

ExpertResult(i) == JObj([expert |-> JNum(i, 1)])
FinalOutput(round) == JStr(Rep("o", round))

\* the stages at which the engine waits on a search or model call
AtCallBoundary(run) == run.stage \in {"search_done", "expert", "synthesis_done"}

\* The event the engine yields next and the run after it.  dataOpt is the data
\* of a node_start, results what the search returned (Undefined: none),
\* stateOpt whether the event carries the run state, more whether the
\* synthesis asks for another round.
EngineEvent(run, dataOpt, results, stateOpt, more) ==
    LET st == run.state
        carried(s) == IF stateOpt THEN s ELSE Undefined
    IN CASE run.stage = "search_start" ->
             [ev |-> [type |-> "node_start", node |-> "search", data |-> dataOpt],
              run |-> [run EXCEPT !.stage = "search_done",
                                  !.state = SetField(st, "expertsOutput", JArr(<<>>))]]
         [] run.stage = "search_done" ->
             LET s2 == SetField(st, "searchResults", results)
             IN [ev |-> [type |-> "node_complete", node |-> "search", state |-> carried(s2)],
                 run |-> [run EXCEPT !.stage = "experts_start", !.state = s2]]
         [] run.stage = "experts_start" ->
             [ev |-> [type |-> "node_start", node |-> "experts", data |-> dataOpt],
              run |-> [run EXCEPT !.stage = "expert", !.experts = 0]]
         [] run.stage = "expert" ->
             LET s2 == SetField(st, "expertsOutput",
                         JArr(Append(Get(st, "expertsOutput").items,
                                     ExpertResult(run.experts + 1))))
             IN [ev |-> [type |-> "expert_complete", data |-> ExpertResult(run.experts + 1)],
                 run |-> [run EXCEPT !.experts = @ + 1, !.state = s2,
                                     !.stage = IF run.experts + 1 >= NumExperts
                                               THEN "experts_done" ELSE "expert"]]
         [] run.stage = "experts_done" ->
             [ev |-> [type |-> "node_complete", node |-> "experts", state |-> carried(st)],
              run |-> [run EXCEPT !.stage = "synthesis_start"]]
         [] run.stage = "synthesis_start" ->
             [ev |-> [type |-> "node_start", node |-> "synthesis", data |-> dataOpt],
              run |-> [run EXCEPT !.stage = "synthesis_done"]]
         [] run.stage = "synthesis_done" ->
             LET s2 == SetField(st, "finalOutput", FinalOutput(run.round))
                 again == more /\ run.round < RoundLimit(Get(run.config, "maxRounds"))
             IN [ev |-> [type |-> "node_complete", node |-> "synthesis", state |-> carried(s2)],
                 run |-> [run EXCEPT !.state = s2,
                                     !.round = IF again THEN @ + 1 ELSE @,
                                     !.stage = IF again THEN "search_start" ELSE "complete"]]
         [] run.stage = "complete" ->
             [ev |-> [type |-> "complete", state |-> carried(st)],
              run |-> [run EXCEPT !.stage = "end"]]

YieldStages ==
    {"search_start", "search_done", "experts_start", "expert", "experts_done",
     "synthesis_start", "synthesis_done", "complete"}

(***************************************************************************)
(* ChatWebSocket.ts: translation of engine events and safeSend.            *)
(***************************************************************************)
\* update.state?.k
OptGet(v, k) == IF v = Undefined \/ v = JNull THEN Undefined ELSE Get(v, k)

\* if (update.type === 'node_start')
NodeStartPayload(update) ==
    [type |-> "state_update", node |-> update.node, status |-> "started",
     data |-> Or(update.data, EmptyObj)]

\* else if (update.type === 'expert_complete')
ExpertCompletePayload(update) ==
    [type |-> "expert_complete", data |-> update.data]

\* else if (update.type === 'node_complete')
NodeCompletePayloadAnyNode(update) ==
    IF Truthy(OptGet(update.state, "searchResults"))
    THEN [type |-> "state_update", node |-> update.node, status |-> "completed",
          searchResults |-> OptGet(update.state, "searchResults")]
    ELSE [type |-> "state_update", node |-> update.node, status |-> "completed"]
NodeCompletePayloadAsStarted(update) ==
    [type |-> "state_update", node |-> update.node, status |-> "started"]
NodeCompletePayloadAsComplete(update) ==
    [type |-> "complete", node |-> update.node, status |-> "completed"]
NodeCompletePayload(update) ==
    IF update.node = "search" /\ Truthy(OptGet(update.state, "searchResults"))
    THEN [type |-> "state_update", node |-> update.node, status |-> "completed",
          searchResults |-> OptGet(update.state, "searchResults")]
    ELSE [type |-> "state_update", node |-> update.node, status |-> "completed"]

\* else if (update.type === 'complete')
CompletePayload(update) ==
    [type |-> "complete",
     data |-> JObj([final_output |-> OptGet(update.state, "finalOutput"),
                    experts |-> OptGet(update.state, "expertsOutput"),
                    searchResults |-> OptGet(update.state, "searchResults")])]

\* the payloads the loop body hands to safeSend for an engine event: none
\* when no branch of the if / else-if chain matches
Payload(update) ==
    CASE update.type = "node_start" -> <<NodeStartPayload(update)>>
      [] update.type = "expert_complete" -> <<ExpertCompletePayload(update)>>
      [] update.type = "node_complete" -> <<NodeCompletePayload(update)>>
      [] update.type = "complete" -> <<CompletePayload(update)>>
      [] OTHER -> <<>>

\* JSON.stringify of a value: an object member whose value is undefined is
\* left out, an array item that is undefined is written as null, at every
\* depth
RECURSIVE DropUndefined(_)
DropUndefined(v) ==
    CASE v.t = "obj" ->
           JObj([k \in {j \in DOMAIN v.f : v.f[j] # Undefined} |->
                    DropUndefined(v.f[k])])
      [] v.t = "arr" ->
           JArr([i \in DOMAIN v.items |->
                    IF v.items[i] = Undefined THEN JNull
                    ELSE DropUndefined(v.items[i])])
      [] OTHER -> v

Stringify(payload) ==
    [k \in {j \in DOMAIN payload :
              ~(j \in {"data", "searchResults"} /\ payload[j] = Undefined)} |->
        IF k \in {"data", "searchResults"} THEN DropUndefined(payload[k])
        ELSE payload[k]]

\* safeSend(socket, payload): what reaches the client
safeSendUnchecked(state, payload) == <<Stringify(payload)>>
safeSend(state, payload) ==
    IF state = OPEN THEN <<Stringify(payload)>> ELSE <<>>

TypeErrorText == "Cannot read properties of null (reading 'type')"

\* the text of the error reply of each rejecting path
RejectText(path) ==
    CASE path = "too_large" -> "Message too large"
      [] path = "invalid_json" -> "Invalid JSON"
      [] path = "busy" -> "Already processing a query. Please wait or send cancel."
      [] path = "empty" -> "Empty query"
      [] path = "too_long" -> "Query too long (max 50,000 characters)"
      [] path = "type_error" -> TypeErrorText

RejectPaths == {"too_large", "invalid_json", "busy", "empty", "too_long"}

(***************************************************************************)
(* State.                                                                  *)
(***************************************************************************)
VARIABLES
    isProcessing,    \* the connection's isProcessing flag
    currentEngine,   \* the connection's currentEngine: an engine id, or NoEngine
    readyState,      \* socket.readyState
    runs,            \* the engines created on the connection, by id, with the
                     \* position of each one's stream and handler invocation
    last,            \* the handler step taken last and what it sent to the client
    cache,           \* LLMFactory.cache
    made,            \* number of providers constructed so far
    llmDefaults,     \* llmConfig.get(): the process-wide configuration
    llmResult,       \* what the last createLLM call made outside the
                     \* connection's engines threw or returned
    isShuttingDown,  \* index.ts: the isShuttingDown flag
    shutdownCalls,   \* the calls the shutdown sequence has made, in order
    exitCode,        \* the code process.exit was called with, or Running
    delivered        \* signals delivered to the process so far, by name

vars ==
    <<isProcessing, currentEngine, readyState, runs, last, cache, made,
      llmDefaults, llmResult, isShuttingDown, shutdownCalls, exitCode, delivered>>

connVars ==
    <<isProcessing, currentEngine, readyState, runs, last, cache, made,
      llmDefaults, llmResult>>
procVars == <<isShuttingDown, shutdownCalls, exitCode, delivered>>

Running == 0 - 1
Signals == {"SIGTERM", "SIGINT"}

NoEngine == 0

Engines == DOMAIN runs
Active == {e \in Engines : runs[e].active}

K_default == Chars(<<"k", "0">>)
K_request == Chars(<<"k", "1">>)
M_default == Chars(<<"m">>)

\* process-wide configurations: with and without a credential
DefaultConfigs ==
    {JObj([provider |-> JStr(S_openai), apiKey |-> JStr(K_default),
           baseUrl |-> JStr(<<>>), defaultModel |-> JStr(M_default)]),
     JObj([provider |-> JStr(S_openai), apiKey |-> JStr(<<>>),
           baseUrl |-> JStr(<<>>), defaultModel |-> JStr(M_default)])}

Init ==
    /\ isProcessing = FALSE
    /\ currentEngine = NoEngine
    /\ readyState = OPEN
    /\ runs = <<>>
    /\ last = [op |-> "connect", run |-> NoEngine, sent |-> <<>>]
    /\ cache = <<>>
    /\ made = 0
    /\ llmDefaults \in DefaultConfigs
    /\ llmResult = [called |-> FALSE]
    /\ isShuttingDown = FALSE
    /\ shutdownCalls = <<>>
    /\ exitCode = Running
    /\ delivered = [s \in Signals |-> 0]

(***************************************************************************)
(* socket.on('message'): the synchronous part of the handler, up to the    *)
(* first pull on engine.stream().                                          *)
(***************************************************************************)
\* the engines the cancel branch aborts
CancelTargetsNone(cur) == {}
CancelTargets(cur) == IF cur # NoEngine THEN {cur} ELSE {}

Receive(frame, limit) ==
    LET path == Path(frame, isProcessing)
        data == frame.json
        id == Len(runs) + 1
    IN  /\ path = "accept" => Len(runs) < limit
        /\ isProcessing' = (CASE path = "accept" -> TRUE
                              [] path = "type_error" -> FALSE
                              [] OTHER -> isProcessing)
        /\ currentEngine' = (CASE path = "accept" -> id
                               [] path = "type_error" -> NoEngine
                               [] OTHER -> currentEngine)
        /\ runs' = (CASE path = "accept" ->
                           Append(runs, NewRun(data, QueryOf(data), StreamConfig(data)))
                      [] path = "cancel" ->
                           [e \in Engines |->
                              [(IF e \in CancelTargets(currentEngine)
                                THEN abort(runs[e]) ELSE runs[e])
                               EXCEPT !.cancelled = @ \/ e = currentEngine]]
                      [] OTHER -> runs)
        /\ last' = [op |-> path,
                    run |-> IF path = "accept" THEN id ELSE NoEngine,
                    sent |-> CASE path \in RejectPaths \cup {"type_error"} ->
                                    safeSend(readyState, ErrorMsg(RejectText(path)))
                               \* socket.send(PONG_MSG), not through safeSend
                               [] path = "ping" -> <<PONG_MSG>>
                               [] OTHER -> <<>>]
        /\ UNCHANGED <<readyState, cache, made, llmDefaults, llmResult, procVars>>

(***************************************************************************)
(* The for await loop over engine.stream(), one step per pull.             *)
(***************************************************************************)
\* finally { isProcessing = false; currentEngine = null }
FinallySkipped == UNCHANGED <<isProcessing, currentEngine>>
Finally ==
    /\ isProcessing' = FALSE
    /\ currentEngine' = NoEngine

\* error.message || 'Unknown error'
ErrorText(message) == IF message # "" THEN message ELSE "Unknown error"

\* stream() raises an error with this message: finally, then the outer catch
Fail(e, message) ==
    LET out == safeSend(readyState, ErrorMsg(ErrorText(message)))
    IN  /\ runs' = [runs EXCEPT ![e] = Ended(@)]
        /\ last' = [op |-> "throw", run |-> e, sent |-> out,
                    final |-> Final(Sent(runs[e], out), "threw")]
        /\ Finally

\* First pull: the engine builds its model client before any node starts.
EngineStart(e) ==
    LET r == createLLM(cache, made, EffectiveConfig(llmDefaults, runs[e].config),
                       llmDefaults)
    IN  /\ e \in Active
        /\ runs[e].stage = "init"
        /\ ~runs[e].aborted
        /\ IF r.threw # ""
           THEN /\ Fail(e, r.threw)
                /\ UNCHANGED <<readyState, cache, made, llmDefaults, llmResult, procVars>>
           ELSE /\ runs' = [runs EXCEPT ![e].stage =
                              IF RoundLimit(Get(runs[e].config, "maxRounds")) >= 1
                              THEN "search_start" ELSE "complete"]
                /\ cache' = r.cache
                /\ made' = r.made
                /\ last' = [op |-> "start", run |-> e, sent |-> <<>>]
                /\ UNCHANGED <<isProcessing, currentEngine, readyState, llmDefaults,
                               llmResult, procVars>>

\* The engine yields its next event and the loop body handles it.
EngineYield(e, dataOpt, results, stateOpt, more) ==
    /\ e \in Active
    /\ runs[e].stage \in YieldStages
    /\ ~runs[e].aborted
    /\ LET y == EngineEvent(runs[e], dataOpt, results, stateOpt, more)
           out == IF Payload(y.ev) = <<>> THEN <<>>
                  ELSE safeSend(readyState, Payload(y.ev)[1])
       IN IF readyState # OPEN
          THEN \* engine.abort(); break: the loop waits for the generator's
               \* return() before the finally block runs
               /\ runs' = [runs EXCEPT ![e] =
                             [abort(y.run) EXCEPT !.stage = "broken"]]
               /\ last' = [op |-> "break", run |-> e, sent |-> <<>>]
               /\ UNCHANGED <<isProcessing, currentEngine>>
          ELSE /\ runs' = [runs EXCEPT ![e] =
                             Sent([y.run EXCEPT !.yielded = Append(@, y.ev)], out)]
               /\ last' = [op |-> "yield", run |-> e, sent |-> out]
               /\ UNCHANGED <<isProcessing, currentEngine>>
    /\ UNCHANGED <<readyState, cache, made, llmDefaults, llmResult, procVars>>

\* A search or model call fails and the failure is raised out of stream().
EngineThrow(e, message) ==
    /\ e \in Active
    /\ AtCallBoundary(runs[e])
    /\ ~runs[e].aborted
    /\ Fail(e, message)
    /\ UNCHANGED <<readyState, cache, made, llmDefaults, llmResult, procVars>>

\* The stream ends: after the complete event, because the token is set, or
\* because the loop left it by break; then the finally block.
EngineReturn(e) ==
    /\ e \in Active
    /\ runs[e].stage = "end" \/ runs[e].aborted
    /\ runs' = [runs EXCEPT ![e] = Ended(@)]
    /\ last' = [op |-> "return", run |-> e, sent |-> <<>>,
                final |-> Final(runs[e], IF runs[e].stage = "broken" THEN "broke"
                                         ELSE "returned")]
    /\ Finally
    /\ UNCHANGED <<readyState, cache, made, llmDefaults, llmResult, procVars>>

(***************************************************************************)
(* The socket.                                                             *)
(***************************************************************************)
\* a close handshake begins: readyState leaves OPEN before 'close' is emitted
SocketClosing ==
    /\ readyState = OPEN
    /\ readyState' = CLOSING
    /\ last' = [op |-> "closing", run |-> NoEngine, sent |-> <<>>]
    /\ UNCHANGED <<isProcessing, currentEngine, runs, cache, made, llmDefaults,
                   llmResult, procVars>>

\* socket.on('close')
SocketClose ==
    /\ readyState # CLOSED
    /\ readyState' = CLOSED
    /\ runs' = [e \in Engines |->
                  IF e = currentEngine THEN abort(runs[e]) ELSE runs[e]]
    /\ currentEngine' = NoEngine
    /\ last' = [op |-> "close", run |-> currentEngine, sent |-> <<>>]
    /\ UNCHANGED <<isProcessing, cache, made, llmDefaults, llmResult, procVars>>

(***************************************************************************)
(* Inputs.                                                                 *)
(***************************************************************************)
Q_short == Chars(<<"h", "i">>)

Request(f) == Frame(64, JObj(f))

F_query == Request([query |-> JStr(Q_short)])
F_cancel == Request([type |-> JStr(S_cancel)])
F_ping == Request([type |-> JStr(S_ping)])
F_garbage == Frame(5, Unparseable)
F_null == Frame(4, JNull)

\* the protocol: a valid query, cancel, ping, JSON null (unparseable text
\* and the other rejected inputs are among InputFrames)
Frames == {F_query, F_cancel, F_ping, F_null}

SearchResults(n) == JArr([i \in 1..n |-> JObj([rank |-> JNum(i, 1)])])
NodeData == JObj([round |-> JNum(1, 1)])
EngineErrors == {"Synthesis failed", ""}

Next ==
    \/ \E f \in Frames : Receive(f, MaxRuns)
    \/ \E e \in Engines : EngineStart(e)
    \/ \E e \in Engines, more \in BOOLEAN :
          EngineYield(e, NodeData, SearchResults(3), TRUE, more)
    \/ \E e \in Engines, m \in EngineErrors : EngineThrow(e, m)
    \/ \E e \in Engines : EngineReturn(e)
    \/ SocketClosing
    \/ SocketClose

Spec == Init /\ [][Next]_vars

\* an engine whose stream may end does end (the generator is driven to its
\* return by the consumer's pull)
FairSpec == Spec /\ \A e \in 1..MaxRuns : WF_vars(EngineReturn(e))

(***************************************************************************)
(* Requests: every shape of query and of configuration field.              *)
(***************************************************************************)
M_request == Chars(<<"m", "1">>)
U_request == Chars(<<"u">>)
Ctx == Chars(<<"c", "t", "x">>)

\* the length of the text of a frame that carries this value
FrameSize(json) ==
    64 + (IF Get(json, "query").t = "str" THEN StrLen(Get(json, "query").s) ELSE 0)

Sized(json) == Frame(FrameSize(json), json)

QueryTexts ==
    {<<>>,
     Rep(" ", 3),
     Rep("\t", 1),
     Chars(<<"\t", "h", "i", "\r">>),
     Cat(Rep(" ", 1), Cat(Q_short, Rep("\n", 1))),
     Rep("a", MAX_QUERY_LENGTH),
     Rep("a", MAX_QUERY_LENGTH + 1),
     Cat(Rep(" ", 2), Cat(Rep("a", MAX_QUERY_LENGTH), Rep(" ", 2))),
     Cat(Rep("a", MAX_QUERY_LENGTH + 1), Rep(" ", 1))}

QueryValues ==
    {JStr(t) : t \in QueryTexts} \cup {JNull, JNum(7, 1), JBool(TRUE), JArr(<<>>)}

QueryFrames ==
    {Sized(JObj([k \in {"query"} |-> q])) : q \in QueryValues} \cup {Sized(EmptyObj)}

ConfigFields == {"maxRounds", "model", "apiKey", "baseUrl", "fileContext"}

FieldValues(k) ==
    CASE k = "maxRounds" ->
           {JNull, JNum(0, 1), JNum(1, 1), JNum(MaxRoundsReq, 1), JNum(0 - 1, 1),
            JNum(5, 2), JStr(Chars(<<"x">>)), JBool(TRUE), JBool(FALSE)}
      [] k = "model" -> {JNull, JStr(<<>>), JStr(M_request), JNum(5, 1)}
      [] k = "apiKey" -> {JNull, JStr(<<>>), JStr(K_request), OwnToString}
      [] k = "baseUrl" -> {JNull, JStr(<<>>), JStr(U_request)}
      [] k = "fileContext" ->
           {JNull, JStr(<<>>), JStr(Ctx), JBool(FALSE), JNum(0, 1),
            JObj([name |-> JStr(Ctx)]), JArr(<<>>)}

ConfigFrames ==
    UNION {{Sized(JObj([x \in {"query", k} |->
                           IF x = "query" THEN JStr(Q_short) ELSE v])) :
               v \in FieldValues(k)} : k \in ConfigFields}

F_full ==
    Sized(JObj([query |-> JStr(Q_short), maxRounds |-> JNum(MaxRoundsReq, 1),
                model |-> JStr(M_request), apiKey |-> JStr(K_request),
                baseUrl |-> JStr(U_request), fileContext |-> JStr(Ctx)]))

\* a frame over the size limit, and one exactly at it
F_huge == Frame(MAX_MESSAGE_SIZE + 1, JObj([query |-> JStr(Q_short)]))
F_limit == Frame(MAX_MESSAGE_SIZE, JObj([query |-> JStr(Q_short)]))

\* parseable JSON that is not an object
NonObjectFrames ==
    {Sized(JNum(42, 1)), Sized(JStr(Q_short)), Sized(JArr(<<>>)), Sized(JBool(TRUE))}

InputFrames ==
    QueryFrames \cup ConfigFrames \cup NonObjectFrames
    \cup {F_full, F_huge, F_limit, F_garbage}

NextInput ==
    \/ \E f \in InputFrames : Receive(f, MaxInputRuns)
    \/ \E e \in Engines : EngineStart(e)
    \/ \E e \in Engines, more \in BOOLEAN :
          EngineYield(e, NodeData, SearchResults(3), TRUE, more)
    \/ \E e \in Engines, m \in EngineErrors : EngineThrow(e, m)
    \/ \E e \in Engines : EngineReturn(e)
    \/ SocketClosing
    \/ SocketClose

SpecInput == Init /\ [][NextInput]_vars

(***************************************************************************)
(* Engine events: every shape of payload.                                  *)
(***************************************************************************)
\* data with an undefined member and an undefined array item below the top
SparseData ==
    JObj([round |-> JNum(1, 1),
          detail |-> JObj([note |-> Undefined, items |-> JArr(<<JNum(1, 1), Undefined>>)])])

DataOptions == {Undefined, JNull, SparseData}
ResultOptions == {Undefined, SearchResults(0), SearchResults(3)}

NextEvents ==
    \/ Receive(F_query, MaxInputRuns)
    \/ \E e \in Engines : EngineStart(e)
    \/ \E e \in Engines, d \in DataOptions, r \in ResultOptions, st, more \in BOOLEAN :
          EngineYield(e, d, r, st, more)
    \/ \E e \in Engines, m \in EngineErrors : EngineThrow(e, m)
    \/ \E e \in Engines : EngineReturn(e)
    \/ SocketClosing
    \/ SocketClose

SpecEvents == Init /\ [][NextEvents]_vars

(***************************************************************************)
(* LLMFactory called by the rest of the process, next to one connection.   *)
(***************************************************************************)
\* two configurations whose fields differ but give the same text once joined
\* with ':' : (apiKey "k", baseUrl "h:x") and (apiKey "k:h", baseUrl "x")
ColonA == JObj([provider |-> JStr(S_openai), apiKey |-> JStr(Chars(<<"k">>)),
                baseUrl |-> JStr(Chars(<<"h", ":", "x">>)),
                defaultModel |-> JStr(M_request)])
ColonB == JObj([apiKey |-> JStr(Chars(<<"k", ":", "h">>)),
                baseUrl |-> JStr(Chars(<<"x">>)),
                defaultModel |-> JStr(M_request)])

FactoryConfigs ==
    {Undefined,
     EmptyObj,
     JObj([provider |-> JStr(S_openai), apiKey |-> JStr(<<>>),
           defaultModel |-> JStr(M_request)]),
     ColonA,
     ColonB,
     \* a model that is a number, as a request may carry it
     JObj([apiKey |-> JStr(Chars(<<"k">>)), defaultModel |-> JNum(1, 10000000)]),
     \* a credential that no key can be built from
     JObj([apiKey |-> OwnToString])}

\* LLMFactory.createLLM(customConfig)
CreateLLMCall(customConfig, limit) ==
    LET r == createLLM(cache, made, customConfig, llmDefaults)
    IN  /\ r.made <= limit
        /\ cache' = r.cache
        /\ made' = r.made
        /\ llmResult' = [called |-> TRUE, config |-> customConfig,
                         threw |-> r.threw, provider |-> r.provider]
        /\ UNCHANGED <<isProcessing, currentEngine, readyState, runs, last, llmDefaults, procVars>>

\* LLMFactory.clearCache()
ClearCacheCall ==
    /\ cache' = clearCache(cache)
    /\ llmResult' = [called |-> FALSE]
    /\ UNCHANGED <<isProcessing, currentEngine, readyState, runs, last, made, llmDefaults, procVars>>

NextFactory ==
    \/ \E c \in FactoryConfigs : CreateLLMCall(c, MaxProviders)
    \/ ClearCacheCall
    \/ Receive(F_query, MaxInputRuns)
    \/ \E e \in Engines : EngineStart(e)
    \/ \E e \in Engines, more \in BOOLEAN :
          EngineYield(e, NodeData, SearchResults(3), TRUE, more)
    \/ \E e \in Engines, m \in EngineErrors : EngineThrow(e, m)
    \/ \E e \in Engines : EngineReturn(e)
    \/ SocketClosing
    \/ SocketClose

SpecFactory == Init /\ [][NextFactory]_vars

(***************************************************************************)
(* LLMFactory on its own, with enough configurations to fill the cache.    *)
(***************************************************************************)
\* the i-th credential
KeyConfig(i) == JObj([provider |-> JStr(S_openai), apiKey |-> JStr(Rep("k", i))])

\* the configurations a caller asks for after n providers were constructed:
\* a credential not used before, the first credential, no credential, and a
\* credential and an endpoint that no key can be built from
CacheConfigs(n) ==
    {KeyConfig(n + 1), KeyConfig(1),
     JObj([provider |-> JStr(S_openai)]),
     JObj([apiKey |-> OwnToString]),
     JObj([apiKey |-> JStr(Rep("k", 1)), baseUrl |-> JArr(<<OwnToString>>)])}

NextCache ==
    \/ \E c \in CacheConfigs(made) : CreateLLMCall(c, MaxCreated)
    \/ ClearCacheCall

SpecCache == Init /\ [][NextCache]_vars

(***************************************************************************)
(* index.ts: signals and the shutdown sequence of the started process.     *)
(***************************************************************************)
\* if (isShuttingDown) return
AlreadyShuttingDownIgnored(flag) == FALSE
AlreadyShuttingDown(flag) == flag

Call(name, threw) == [call |-> name, threw |-> threw]

\* process.on(signal, () => shutdown(signal)): the handler up to its first
\* await, which is the call of server.close()
Signal(sig) ==
    /\ exitCode = Running
    /\ delivered[sig] < MaxSignals
    /\ delivered' = [delivered EXCEPT ![sig] = @ + 1]
    /\ IF AlreadyShuttingDown(isShuttingDown)
       THEN UNCHANGED <<isShuttingDown, shutdownCalls>>
       ELSE /\ isShuttingDown' = TRUE
            /\ shutdownCalls' = Append(shutdownCalls, [signal |-> sig])
    /\ UNCHANGED <<exitCode, connVars>>

\* a shutdown waits for server.close() to settle
Closing == {i \in DOMAIN shutdownCalls :
              "signal" \in DOMAIN shutdownCalls[i] /\
              (i = Len(shutdownCalls) \/ "signal" \in DOMAIN shutdownCalls[i + 1])}

\* server.close() of the shutdown started by call i settles (closeThrew: it
\* rejected); then configStore.close() (storeThrew: it threw) and
\* process.exit(0), without another await in between
ServerCloseSettles(i, closeThrew, storeThrew) ==
    /\ exitCode = Running
    /\ i \in Closing
    /\ shutdownCalls' =
          SubSeq(shutdownCalls, 1, i)
          \o <<Call("server.close", closeThrew), Call("configStore.close", storeThrew),
               Call("process.exit", FALSE)>>
          \o SubSeq(shutdownCalls, i + 1, Len(shutdownCalls))
    /\ exitCode' = 0
    /\ UNCHANGED <<isShuttingDown, delivered, connVars>>

\* process.on('uncaughtException'): process.exit(1)
UncaughtException ==
    /\ exitCode = Running
    /\ exitCode' = 1
    /\ UNCHANGED <<isShuttingDown, shutdownCalls, delivered, connVars>>

NextShutdown ==
    \/ \E sig \in Signals : Signal(sig)
    \/ \E i \in Closing, closeThrew, storeThrew \in BOOLEAN :
          ServerCloseSettles(i, closeThrew, storeThrew)
    \/ UncaughtException

SpecShutdown == Init /\ [][NextShutdown]_vars

(***************************************************************************)
(* Properties of the connection protocol.                                  *)
(***************************************************************************)

\* C1: at most one engine run is active on the connection at any time.
C1_AtMostOneActiveRun == Cardinality(Active) <= 1

\* C2: after a cancel message has been handled, abort() has been called on
\* every run that is active on the connection.
C2_CancelAbortsActiveRun ==
    last.op = "cancel" => \A e \in Active : runs[e].aborted

EndOps == {"throw", "return"}

\* C3: once a cancel message has been handled for the current engine of an
\* active run, no 'complete' message is sent for that run any more, and the
\* run's stream ends: a cancelled run stays cancelled until it ends, an
\* ended run stays ended, and no run remains cancelled and active for ever.
C3_CancelStopsRun ==
    /\ [][\A e \in Engines :
            /\ (runs[e].cancelled /\ runs'[e].active) =>
                  /\ runs'[e].cancelled
                  /\ runs'[e].completes = runs[e].completes
            /\ (runs[e].cancelled /\ ~runs'[e].active) =>
                  /\ last'.op \in EndOps /\ last'.run = e
                  /\ last'.final.completes = runs[e].completes
            /\ ~runs[e].active => ~runs'[e].active]_vars
    /\ \A e \in 1..MaxRuns :
          []<>(~(e \in Engines /\ runs[e].cancelled /\ runs[e].active))

\* a run that was cancelled after its first events had been forwarded has
\* just ended, without a 'complete'
C3_Witness ==
    /\ last.op = "return"
    /\ last.final.outcome = "returned"
    /\ last.final.cancelled
    /\ last.final.searchStarts > 0
    /\ last.final.completes = 0

\* C4: for every run, 'complete' and the error message of the run's failure
\* are each sent at most once, and never both: while the run is active and
\* when it ends.
C4_CompleteXorError ==
    /\ \A e \in Active :
          /\ runs[e].completes <= 1
          /\ runs[e].errors <= 1
          /\ runs[e].completes + runs[e].errors <= 1
    /\ last.op \in EndOps =>
          /\ last.final.completes <= 1
          /\ last.final.errors <= 1
          /\ last.final.completes + last.final.errors <= 1

\* a run that was sent 'complete' has ended, after an earlier run that
\* ended too
C4_Witness ==
    /\ last.op = "return"
    /\ last.final.completes = 1 /\ last.final.errors = 0
    /\ last.run = 2

\* C9 as stated: a run whose stream failed was sent exactly one error
\* message and no 'complete', and the failure leaves the session idle.
C9_FailureAlwaysReported ==
    last.op = "throw" =>
        /\ last.final.errors = 1 /\ last.final.completes = 0
        /\ ~isProcessing /\ currentEngine = NoEngine

\* C9 amended: when a run's stream fails, the session is idle afterwards and
\* no 'complete' was sent for the run; the client is sent exactly one
\* {type 'error', message} with a non-empty text if the socket is open, and
\* nothing if it is not.
C9_FailureReportedWhileOpen ==
    last.op = "throw" =>
        /\ ~isProcessing /\ currentEngine = NoEngine
        /\ ~runs[last.run].active
        /\ last.final.completes = 0
        /\ readyState = OPEN =>
              /\ Len(last.sent) = 1
              /\ last.sent[1].type = "error"
              /\ DOMAIN last.sent[1] = {"type", "message"}
              /\ last.sent[1].message \in STRING
              /\ last.sent[1].message # ""
              /\ last.final.errors = 1
        /\ readyState # OPEN => last.sent = <<>> /\ last.final.errors = 0

\* a node failure after events were forwarded, reported on an open socket
C9_Witness ==
    /\ last.op = "throw"
    /\ readyState = OPEN
    /\ last.final.searchStarts > 0
    /\ last.sent = <<ErrorMsg("Synthesis failed")>>

(***************************************************************************)
(* Properties of request validation and of the run configuration.          *)
(***************************************************************************)
\* what the claim asks of a query handed to engine.stream
ValidQuery(q) ==
    /\ q # <<>>
    /\ ~IsWhitespace(q[1].c)
    /\ ~IsWhitespace(q[Len(q)].c)
    /\ StrLen(q) <= 50000

\* the query of a request is missing, not a string, blank or too long
BadQuery(data) ==
    \/ data.t # "obj"
    \/ "query" \notin DOMAIN data.f
    \/ data.f["query"].t # "str"
    \/ \A i \in DOMAIN data.f["query"].s : IsWhitespace(data.f["query"].s[i].c)
    \/ StrLen(Trim(data.f["query"].s)) > 50000

\* the frames within the size limit that parse but carry no valid query
BadQueryFrames ==
    {f \in InputFrames :
        f.size <= MAX_MESSAGE_SIZE /\ f.json # Unparseable /\ BadQuery(f.json)}

\* every engine was created with the request's query, trimmed, which is
\* non-empty and at most 50,000 characters long, and a frame without a
\* valid query is rejected whatever the session's state
QueriesValidated ==
    /\ \A e \in Active :
          /\ ~BadQuery(runs[e].request)
          /\ runs[e].query = Trim(runs[e].request.f["query"].s)
          /\ ValidQuery(runs[e].query)
    /\ \A f \in BadQueryFrames :
          Path(f, isProcessing) \in {"busy", "empty", "too_long"}
    /\ last.op \in {"busy", "empty", "too_long"} => last.run = NoEngine

\* C5: only valid, trimmed queries reach an engine, and a message without a
\* valid query creates no engine and is answered with one error message.
C5_OnlyValidQueriesReachEngine ==
    /\ QueriesValidated
    /\ last.op \in {"busy", "empty", "too_long"} =>
          /\ Len(last.sent) = 1
          /\ last.sent[1].type = "error"

\* C5, amended: only valid, trimmed queries reach an engine, and a message
\* without a valid query creates no engine; it is answered with one error
\* message when the socket is open and with nothing when it is not.
C5_InvalidQueriesAnsweredWhileOpen ==
    /\ QueriesValidated
    /\ last.op \in {"busy", "empty", "too_long"} =>
          IF readyState = OPEN
          THEN Len(last.sent) = 1 /\ last.sent[1].type = "error"
          ELSE last.sent = <<>>

\* a run was started with a query of exactly 50,000 characters that the
\* request carried between blanks
C5_Witness ==
    \E e \in Active :
        /\ StrLen(runs[e].query) = 50000
        /\ Get(runs[e].request, "query").s # runs[e].query
        /\ runs[e].stage # "init"

OptionalKeys == {"defaultModel", "apiKey", "baseUrl", "fileContext"}

\* the request has the property and it is not null
Carried(data, k) == k \in DOMAIN data.f /\ data.f[k] # JNull

\* maxRounds of the configuration is the request's, or 1 when that is
\* absent or falsy; no property of the configuration is null or undefined
MaxRoundsAndValuesOk(run) ==
    /\ "maxRounds" \in DOMAIN run.config.f
    /\ run.config.f["maxRounds"] =
          (IF Carried(run.request, "maxRounds")
                /\ run.request.f["maxRounds"] \notin
                      {JBool(FALSE), JNum(0, 1), JStr(<<>>)}
           THEN run.request.f["maxRounds"]
           ELSE JNum(1, 1))
    /\ DOMAIN run.config.f \subseteq {"maxRounds"} \cup OptionalKeys
    /\ \A k \in DOMAIN run.config.f : run.config.f[k] \notin {JNull, Undefined}

\* C6 as stated: each optional field is in the configuration if and only if
\* the request carried a value for it.
C6_FieldPresentIffCarried ==
    \A e \in Active :
        /\ MaxRoundsAndValuesOk(runs[e])
        /\ \A k \in OptionalKeys :
              k \in DOMAIN runs[e].config.f <=> Carried(runs[e].request, RequestField(k))

\* C6 amended: each optional field is in the configuration, with the
\* request's value, if and only if the request carried a truthy value for it
\* (not null, false, 0 or the empty string).
C6_FieldPresentIffTruthy ==
    \A e \in Active :
        /\ MaxRoundsAndValuesOk(runs[e])
        /\ \A k \in OptionalKeys :
              /\ k \in DOMAIN runs[e].config.f <=>
                    /\ Carried(runs[e].request, RequestField(k))
                    /\ runs[e].request.f[RequestField(k)] \notin
                          {JBool(FALSE), JNum(0, 1), JStr(<<>>)}
              /\ k \in DOMAIN runs[e].config.f =>
                    runs[e].config.f[k] = runs[e].request.f[RequestField(k)]

\* a run whose request set every field, with a configuration of all five
C6_Witness ==
    \E e \in Active :
        /\ DOMAIN runs[e].config.f = {"maxRounds"} \cup OptionalKeys
        /\ runs[e].config.f["defaultModel"] = JStr(M_request)
        /\ runs[e].stage # "init"

\* C7: the maxRounds handed to engine.stream is an integer >= 1.
C7_MaxRoundsPositiveInteger ==
    \A e \in Active :
        LET mr == Get(runs[e].config, "maxRounds")
        IN  mr.t = "num" /\ mr.n % mr.d = 0 /\ mr.n >= mr.d

(***************************************************************************)
(* Properties of the event forwarding.                                     *)
(***************************************************************************)
\* the wire message the interface prescribes for an engine event, as the
\* JSON text carries it: a member that is undefined does not appear
Defined(f) == [k \in {j \in DOMAIN f : f[j] # Undefined} |-> f[k]]

WireShape(ev) ==
    CASE ev.type = "node_start" ->
           [type |-> "state_update", node |-> ev.node, status |-> "started",
            data |-> IF ev.data \in {Undefined, JNull} THEN JObj(<<>>)
                     ELSE DropUndefined(ev.data)]
      [] ev.type = "expert_complete" ->
           [type |-> "expert_complete", data |-> DropUndefined(ev.data)]
      [] ev.type = "node_complete" ->
           IF ev.node = "search" /\ ev.state # Undefined
              /\ ev.state.f["searchResults"] # Undefined
           THEN [type |-> "state_update", node |-> ev.node, status |-> "completed",
                 searchResults |-> ev.state.f["searchResults"]]
           ELSE [type |-> "state_update", node |-> ev.node, status |-> "completed"]
      [] ev.type = "complete" ->
           [type |-> "complete",
            data |-> JObj(Defined(
                [final_output |-> IF ev.state = Undefined THEN Undefined
                                  ELSE ev.state.f["finalOutput"],
                 experts |-> IF ev.state = Undefined THEN Undefined
                             ELSE ev.state.f["expertsOutput"],
                 searchResults |-> IF ev.state = Undefined THEN Undefined
                                   ELSE ev.state.f["searchResults"]]))]

\* C8: the messages sent for a run are, one for one and in order, the
\* prescribed wire messages of the events its engine has yielded.
C8_EventsForwardedInOrder ==
    \A e \in Active :
        /\ Len(runs[e].wire) = Len(runs[e].yielded)
        /\ \A i \in DOMAIN runs[e].yielded :
              runs[e].wire[i] = WireShape(runs[e].yielded[i])

\* a whole run was forwarded, from node_start of the search to 'complete',
\* with search results on the search node's completion only
C8_Witness ==
    \E e \in Active :
        /\ runs[e].stage = "end"
        /\ Len(runs[e].wire) = 6 + NumExperts + 1
        /\ runs[e].wire[1].type = "state_update" /\ runs[e].wire[1].data = EmptyObj
        /\ "searchResults" \in DOMAIN runs[e].wire[2]
        /\ "searchResults" \notin DOMAIN runs[e].wire[Len(runs[e].wire) - 1]
        /\ runs[e].wire[Len(runs[e].wire)].type = "complete"
        /\ DOMAIN runs[e].wire[Len(runs[e].wire)].data.f =
              {"final_output", "experts", "searchResults"}

(***************************************************************************)
(* Properties of LLMFactory.                                               *)
(***************************************************************************)
NoApiKey(config) ==
    config.t # "obj" \/ "apiKey" \notin DOMAIN config.f
    \/ config.f["apiKey"] \in {JNull, Undefined, JStr(<<>>)}

\* createLLM on a configuration without apiKey throws, constructs and
\* returns no provider and leaves the cache as it was
MissingApiKeyRaises ==
    \A c \in FactoryConfigs :
        (CreateLLMCall(c, MaxProviders)
           /\ NoApiKey(IF c = Undefined THEN llmDefaults ELSE c)) =>
            /\ llmResult'.threw = ApiKeyError
            /\ llmResult'.provider = NoProvider
            /\ cache' = cache
            /\ made' = made

\* the first pull of a run whose configuration has no apiKey ends the run,
\* with no provider constructed and no node message sent for it
RunWithoutApiKeyEnds(e) ==
    /\ cache' = cache
    /\ made' = made
    /\ ~runs'[e].active
    /\ runs[e].wire = <<>>
    /\ last'.op = "throw" /\ last'.run = e
    /\ last'.final.searchStarts = 0 /\ last'.final.completes = 0

\* C10: createLLM on a configuration without apiKey throws, constructs and
\* returns no provider and leaves the cache as it was; a run whose
\* configuration has no apiKey ends with the error message sent to the
\* client and no node message.
C10_MissingApiKeyFailsEagerly ==
    [][/\ MissingApiKeyRaises
       /\ \A e \in Engines :
             (EngineStart(e)
                /\ NoApiKey(EffectiveConfig(llmDefaults, runs[e].config))) =>
                 /\ RunWithoutApiKeyEnds(e)
                 /\ last'.sent = <<ErrorMsg(ApiKeyError)>>
                 /\ last'.final.errors = 1]_vars

\* C10, amended: as C10, but the run's error message is sent when the socket
\* is open, and nothing is sent when it is not.
C10_MissingApiKeyReportedWhileOpen ==
    [][/\ MissingApiKeyRaises
       /\ \A e \in Engines :
             (EngineStart(e)
                /\ NoApiKey(EffectiveConfig(llmDefaults, runs[e].config))) =>
                 /\ RunWithoutApiKeyEnds(e)
                 /\ last'.sent = IF readyState = OPEN
                                 THEN <<ErrorMsg(ApiKeyError)>> ELSE <<>>
                 /\ last'.final.errors = Len(last'.sent)]_vars

\* with providers cached, a createLLM call without apiKey threw and a run
\* without credential was sent the error as its only message
C10_Witness ==
    /\ cache # <<>>
    /\ llmResult.called /\ llmResult.threw = ApiKeyError
    /\ last.op = "throw" /\ last.sent = <<ErrorMsg(ApiKeyError)>>
    /\ last.final.searchStarts = 0 /\ last.final.errors = 1

\* C14: the step in which the socket closes leaves every active run with
\* abort() called on its engine; no engine event is forwarded while the
\* socket is not open; and the forwarding loop that meets an event with the
\* socket not open aborts its engine and sends nothing.
C14_CloseAbortsRun ==
    /\ [][(readyState # CLOSED /\ readyState' = CLOSED) =>
             \A e \in Engines : runs'[e].active => runs'[e].aborted]_vars
    /\ [](readyState # OPEN => last.op # "yield")
    /\ [](last.op = "break" => runs[last.run].aborted /\ last.sent = <<>>)

\* C15: a cancel message handled while no run is active aborts no engine,
\* sends nothing, raises nothing and leaves isProcessing and currentEngine
\* as they were.
C15_IdleCancelIsNoOp ==
    [][(Receive(F_cancel, MaxRuns) /\ Active = {}) =>
          /\ UNCHANGED <<isProcessing, currentEngine, runs>>
          /\ last'.op = "cancel"
          /\ last'.sent = <<>>]_vars

\* a cancel was handled after the only run of the connection had ended
C15_Witness ==
    /\ last.op = "cancel"
    /\ Active = {}
    /\ Len(runs) = 1
    /\ ~runs[1].active

\* C16: a run started with a maxRounds of N >= 1 is in a round no later than
\* the N-th, and the client has been sent at most N 'search started'
\* messages for it.
C16_AtMostMaxRounds ==
    \A e \in Active :
        LET N == Get(runs[e].config, "maxRounds")
        IN  (N.t = "num" /\ N.n >= N.d) =>
                /\ runs[e].round * N.d <= N.n
                /\ runs[e].searchStarts * N.d <= N.n

\* a run started with the largest maxRounds of the requests is in its last
\* round
C16_Witness ==
    \E e \in Active :
        /\ Get(runs[e].config, "maxRounds") = JNum(MaxRoundsReq, 1)
        /\ runs[e].searchStarts = MaxRoundsReq
        /\ runs[e].round = MaxRoundsReq

\* the five kinds of input error, for a frame handled with this isProcessing
InputError(f, processing) ==
    \/ f.size > MAX_MESSAGE_SIZE
    \/ f.json = Unparseable
    \/ /\ f.json # JNull
       /\ Get(f.json, "type") \notin {JStr(S_ping), JStr(S_cancel)}
       /\ processing \/ BadQuery(f.json)

\* the five kinds of input error are exactly the frames that take a
\* rejecting path of the handler, and a step on a rejecting path leaves
\* isProcessing, currentEngine and every run as they were
InputErrorsRejected ==
    /\ [](\A f \in InputFrames :
            InputError(f, isProcessing) <=> Path(f, isProcessing) \in RejectPaths)
    /\ [][last'.op \in RejectPaths =>
            UNCHANGED <<isProcessing, currentEngine, runs>>]_vars

ErrorReply(sent) ==
    /\ Len(sent) = 1
    /\ DOMAIN sent[1] = {"type", "message"}
    /\ sent[1].type = "error"
    /\ sent[1].message # ""

\* C17: a frame that is too large, unparseable, without a valid query, or a
\* query while the session is busy, is rejected; the rejection sends exactly
\* one error message and leaves isProcessing, currentEngine and every run as
\* they were.
C17_InputErrorsLeaveState ==
    /\ InputErrorsRejected
    /\ [](last.op \in RejectPaths => ErrorReply(last.sent))

\* C17, amended: as C17, but the one error message is sent when the socket
\* is open, and nothing is sent when it is not.
C17_InputErrorsAnsweredWhileOpen ==
    /\ InputErrorsRejected
    /\ [](last.op \in RejectPaths =>
            IF readyState = OPEN THEN ErrorReply(last.sent) ELSE last.sent = <<>>)

\* a query was rejected while a run that has forwarded events goes on
C17_Witness ==
    /\ last.op = "busy"
    /\ isProcessing
    /\ currentEngine \in Active
    /\ runs[currentEngine].wire # <<>>

\* C18: a step that ends a run leaves isProcessing false and currentEngine
\* null; the session is busy only while a run is active; and a valid query
\* handled while the session is not busy is accepted.
C18_NeverLeftBusy ==
    /\ [][\A e \in Engines :
            (runs[e].active /\ ~runs'[e].active) =>
                ~isProcessing' /\ currentEngine' = NoEngine]_vars
    /\ [](isProcessing => Active # {})
    /\ [](~isProcessing => Path(F_query, isProcessing) = "accept")

\* a second run was accepted after the first had ended
C18_Witness ==
    /\ Len(runs) = 2
    /\ ~runs[1].active
    /\ last.op = "accept" /\ last.run = 2
    /\ isProcessing /\ currentEngine = 2

(***************************************************************************)
(* Properties of the shutdown sequence.                                    *)
(***************************************************************************)
Started == {i \in DOMAIN shutdownCalls : "signal" \in DOMAIN shutdownCalls[i]}

\* C20: the shutdown sequence is started at most once, and only by a
\* signal; once server.close() has settled, whether it failed or not, the
\* calls made are server.close, configStore.close and process.exit(0), in
\* this order and once each.
C20_ShutdownOnce ==
    /\ Cardinality(Started) <= 1
    /\ isShuttingDown <=> shutdownCalls # <<>>
    /\ shutdownCalls # <<>> => 1 \in Started
    /\ Len(shutdownCalls) \in {0, 1, 4}
    /\ Len(shutdownCalls) = 4 =>
          /\ [i \in 1..3 |-> shutdownCalls[i + 1].call]
                = <<"server.close", "configStore.close", "process.exit">>
          /\ exitCode = 0
    /\ exitCode = 0 => Len(shutdownCalls) = 4

\* both signals were delivered, more than once, server.close() failed, and
\* the sequence ran to process.exit(0)
C20_Witness ==
    /\ delivered["SIGTERM"] >= 2 /\ delivered["SIGINT"] >= 1
    /\ Len(shutdownCalls) = 4
    /\ shutdownCalls[2] = Call("server.close", TRUE)
    /\ exitCode = 0

(***************************************************************************)
(* Properties of the provider cache.                                       *)
(***************************************************************************)
Entries(c) == {c[i] : i \in DOMAIN c}

\* C11: the cache never holds more than MAX_CACHE_SIZE providers, each under
\* a key of its own.
C11_CacheBounded ==
    /\ Len(cache) <= MAX_CACHE_SIZE
    /\ \A i, j \in DOMAIN cache : cache[i].key = cache[j].key => i = j

\* the cache is full and entries have been evicted from it
C11_Witness == Len(cache) = MAX_CACHE_SIZE /\ made > MAX_CACHE_SIZE

\* C12: a createLLM call that constructs a provider while the cache is full
\* removes exactly the entry whose provider was constructed earliest and
\* adds the new one; one that constructs a provider while the cache is not
\* full only adds the new one; a call that constructs nothing leaves the
\* cache as it is.
C12_FifoEviction ==
    [][\A c \in CacheConfigs(made) :
         CreateLLMCall(c, MaxCreated) =>
            LET new == {x \in Entries(cache') : x.provider = llmResult'.provider}
            IN  IF made' = made
                THEN cache' = cache
                ELSE /\ Cardinality(new) = 1
                     /\ llmResult'.provider.id = made'
                     /\ IF Len(cache) >= MAX_CACHE_SIZE
                        THEN \E old \in Entries(cache) :
                                /\ \A x \in Entries(cache) :
                                      old.provider.id <= x.provider.id
                                /\ Entries(cache') = (Entries(cache) \ {old}) \cup new
                                /\ Len(cache') = Len(cache)
                        ELSE /\ Entries(cache') = Entries(cache) \cup new
                             /\ Len(cache') = Len(cache) + 1]_vars

\* the call made last constructed a provider on a full cache, and the
\* provider constructed first is no longer cached
C12_Witness ==
    /\ llmResult.called /\ llmResult.threw = ""
    /\ made > MAX_CACHE_SIZE
    /\ llmResult.provider.id = made
    /\ Len(cache) = MAX_CACHE_SIZE
    /\ \A x \in Entries(cache) : x.provider.id > 1

SameConfig(a, b) ==
    \A k \in {"provider", "apiKey", "baseUrl", "defaultModel"} : Get(a, k) = Get(b, k)

KeyFields == {"provider", "apiKey", "baseUrl", "defaultModel"}

\* the value is, or holds as an array item, an object with a toString
\* property of its own
RECURSIVE HasOwnToString(_)
HasOwnToString(v) ==
    CASE v.t = "obj" -> "toString" \in DOMAIN v.f
      [] v.t = "arr" -> \E i \in DOMAIN v.items : HasOwnToString(v.items[i])
      [] OTHER -> FALSE

\* the configuration has no apiKey, or a field of the key cannot be
\* converted to a string
Raises(config) ==
    NoApiKey(config) \/ \E k \in KeyFields : HasOwnToString(Get(config, k))

\* a createLLM call whose configuration equals, in provider, apiKey, baseUrl
\* and defaultModel, the one a cached provider was constructed for returns
\* that provider and constructs nothing
SameConfigHits(c) ==
    \A x \in Entries(cache) :
        SameConfig(x.config, Or(c, llmDefaults)) =>
            /\ llmResult'.threw = ""
            /\ llmResult'.provider = x.provider
            /\ made' = made

NewInstance ==
    /\ llmResult'.threw = ""
    /\ llmResult'.provider.id = made + 1
    /\ made' = made + 1

\* C13: a createLLM call with the configuration of a cached provider returns
\* that provider; a createLLM call on an empty cache, whatever its
\* configuration, returns a newly constructed provider.
C13_SameConfigSameInstance ==
    [][\A c \in CacheConfigs(made) :
         CreateLLMCall(c, MaxCreated) =>
            /\ SameConfigHits(c)
            /\ cache = <<>> => NewInstance]_vars

\* C13, amended: as C13, but on an empty cache the call returns a newly
\* constructed provider when its configuration has an apiKey and a key can
\* be built from it; otherwise it throws and constructs nothing.
C13_SameConfigOrNewInstance ==
    [][\A c \in CacheConfigs(made) :
         CreateLLMCall(c, MaxCreated) =>
            /\ SameConfigHits(c)
            /\ cache = <<>> =>
                  IF Raises(Or(c, llmDefaults))
                  THEN /\ llmResult'.threw # ""
                       /\ llmResult'.provider = NoProvider
                       /\ made' = made /\ cache' = cache
                  ELSE NewInstance]_vars

\* clearCache emptied the cache, providers were constructed again, and the
\* call made last returned one of them that was not the newest
C13_Witness ==
    /\ llmResult.called /\ llmResult.threw = ""
    /\ made <= MAX_CACHE_SIZE
    /\ \A x \in Entries(cache) : x.provider.id > 1
    /\ llmResult.provider.id < made
    /\ \E x \in Entries(cache) : x.provider = llmResult.provider

\* C19: the provider a createLLM call returns was constructed with the
\* apiKey, baseUrl and defaultModel of the configuration of the call.
C19_ProviderMatchesConfig ==
    (llmResult.called /\ llmResult.threw = "") =>
        LET config == Or(llmResult.config, llmDefaults)
        IN  /\ llmResult.provider.apiKey = Get(config, "apiKey")
            /\ llmResult.provider.baseUrl = Get(config, "baseUrl")
            /\ llmResult.provider.defaultModel = Get(config, "defaultModel")

====
